---- MODULE Spec2Model ----
(***************************************************************************)
(* Paper-trading bot (dauphongxd/tradingbot): the trade lifecycle engine   *)
(* of bot.py over the SQLite ledger of database.py.                        *)
(*                                                                         *)
(* Two cooperative tasks share the ledger: the market monitor              *)
(* (market_monitor) and the update handler (python-telegram-bot processes  *)
(* updates one at a time, so at most one handler is in flight).  A task    *)
(* gives up control only at an `await`; every action below runs from one   *)
(* suspension to the next.  Awaits that follow each other with no access   *)
(* to shared state in between are one suspension, and a message awaited    *)
(* last, after which the task only returns, is handed to the notifier by   *)
(* the step that issues it.                                                *)
(*                                                                         *)
(* Numbers.  Prices are whole numbers.  Sizes and money are fixed-point    *)
(* tenths (Tenths(50) is 50.0), so that risk / distance, size / 10 and     *)
(* price_diff * size are exact for the inputs drawn below; Python floats   *)
(* compute the same values for them.                                       *)
(***************************************************************************)
EXTENDS Integers, Sequences, FiniteSets, TLC

(***************************************************************************)
(* Bounds of the model.                                                    *)
(***************************************************************************)
\* trades that are ever created (uuid4 values handed out)
MaxTrades == 3
\* monitor cycles that are ever begun, where trades can be many
MaxCycles == 2
\* trades that are ever created where the monitor runs without a bound
LadderTrades == 1
\* trades that are ever created, and monitor cycles that are ever begun,
\* where the operator changes the risk amount
OperatorTrades == 2
OperatorCycles == 2
\* trades that are ever created, and monitor cycles that are ever begun,
\* where the operator changes the risk amount and the leverage
SettingsTrades == 1
SettingsCycles == 2
\* trades that are ever created, and monitor cycles that are ever begun,
\* where signals of two pairs arrive
FeedTrades == 2
FeedCycles == 2
\* trades that are ever created, and monitor cycles that are ever begun,
\* where the operator asks for the balance
QueryTrades == 1
QueryCycles == 2
\* confirmation requests that are ever created
MaxRequests == 1
\* transactions of close_trade that ever fail
MaxFaults == 1

(***************************************************************************)
(* Program constants.                                                      *)
(***************************************************************************)
INITIAL_BALANCE == 1000
initial_leverage == 20
initial_risk == 50
NUM_LEVELS == 10
FINAL_RR == 10
max_retries == 3

Tenths(x) == 10 * x

(***************************************************************************)
(* Strings are sequences of characters, so that concatenation and          *)
(* str.startswith are computed and not assumed.                            *)
(***************************************************************************)
XRP == <<"X", "R", "P">>
BTC == <<"B", "T", "C">>
SOL == <<"S", "O", "L">>
USDT == <<"U", "S", "D", "T">>
SLASH == <<"/">>

BLACKLISTED_COINS == {<<"E", "T", "H">>, BTC}

\* hashtags that arrive in captions, already upper-cased (regex #(\w+))
Tags == {XRP, BTC}

\* the hashtags of the runs in which trades of two pairs are open
FeedTags == {XRP, SOL}

\* trading_pair = f"{pair_tag}USDT"
TradingPair(pair_tag) == pair_tag \o USDT

\* arguments the operator may give to /close_by_symbol
CloseSymbols == {XRP, TradingPair(XRP)}

\* str.startswith
StartsWith(s, prefix) ==
    /\ Len(prefix) <= Len(s)
    /\ SubSeq(s, 1, Len(prefix)) = prefix

(***************************************************************************)
(* The price extractor is an opaque collaborator: an image is identified   *)
(* by what the extractor reads from it, a dict with optional keys.         *)
(***************************************************************************)
ImgLong == [entry |-> 100, stoploss |-> 90, target |-> 200]
ImgShort == [entry |-> 100, stoploss |-> 110, target |-> 50]
\* a target on the wrong side of entry
ImgBadTarget == [entry |-> 100, stoploss |-> 90, target |-> 80]
\* no target could be read
ImgNoTarget == [entry |-> 100, stoploss |-> 90]
\* no entry and no stop could be read
ImgNoPrices == [target |-> 200]
\* entry and stop read as the same price
ImgFlat == [entry |-> 100, stoploss |-> 100, target |-> 200]
Images == {ImgLong, ImgShort, ImgBadTarget, ImgNoTarget, ImgNoPrices, ImgFlat}

\* arguments the operator may give to /setrisk, in tenths: not positive,
\* within the balance, above any balance the account can come to
RiskArgs == {0, Tenths(50), Tenths(2000)}

\* float('nan'): float() parses the argument "nan" to a value that every
\* comparison with a number answers False for.  It is held as a number no
\* command argument, setting or price of the model comes to, and compared
\* only through FloatLess.
NaN == 0 - 1

\* a < b on Python floats
FloatLess(a, b) == a # NaN /\ b # NaN /\ a < b

\* arguments the operator may give to /setleverage: below the range, in
\* it, above it, not a number
LeverageArgs == {0, 125, 126, NaN}

\* 'last' prices the feed can report
Prices == {50, 100, 200}

Abs(x) == IF x < 0 THEN -x ELSE x

(***************************************************************************)
(* Ledger store (database.py).  A table is a function from its primary     *)
(* key; trade ids are handed out in increasing order, which is also the    *)
(* row order of SELECT * FROM open_trades.                                 *)
(***************************************************************************)
RECURSIVE SortedSeq(_)
SortedSeq(S) ==
    IF S = {} THEN << >>
    ELSE LET m == CHOOSE x \in S : \A y \in S : x <= y
         IN <<m>> \o SortedSeq(S \ {m})

\* get_open_trades: every row, as PaperTrade objects
get_open_trades(tbl) == [n \in 1..Cardinality(DOMAIN tbl) |-> tbl[SortedSeq(DOMAIN tbl)[n]]]

\* add_trade: INSERT INTO open_trades
add_trade(tbl, trade) ==
    [id \in DOMAIN tbl \cup {trade.trade_id} |->
        IF id = trade.trade_id THEN trade ELSE tbl[id]]

\* an UPDATE without its WHERE clause: every row takes the trade's fields
update_trade_every_row(tbl, trade) ==
    [id \in DOMAIN tbl |->
        [tbl[id] EXCEPT !.sl_price = trade.sl_price,
                        !.remaining_size = trade.remaining_size,
                        !.tp_levels = trade.tp_levels,
                        !.sl_moved_to_be = trade.sl_moved_to_be]]

\* update_trade: UPDATE open_trades SET sl_price, remaining_size, tp_levels,
\* sl_moved_to_be WHERE trade_id = ?  (no row, no change)
update_trade(tbl, trade) ==
    IF trade.trade_id \notin DOMAIN tbl THEN tbl
    ELSE [tbl EXCEPT ![trade.trade_id] =
            [@ EXCEPT !.sl_price = trade.sl_price,
                      !.remaining_size = trade.remaining_size,
                      !.tp_levels = trade.tp_levels,
                      !.sl_moved_to_be = trade.sl_moved_to_be]]

\* the statements of close_trade's transaction
TxInsertHistory(db, trade, status, exit_price, pnl) ==
    [db EXCEPT !.hist =
        [id \in DOMAIN db.hist \cup {trade.trade_id} |->
            IF id = trade.trade_id
            THEN [pair |-> trade.pair, pnl |-> pnl,
                  direction |-> IF trade.is_long THEN "LONG" ELSE "SHORT",
                  entry_price |-> trade.entry_price,
                  exit_price |-> exit_price, status |-> status]
            ELSE db.hist[id]]]

TxDeleteOpen(db, trade_id) ==
    [db EXCEPT !.open = [id \in DOMAIN db.open \ {trade_id} |-> db.open[id]]]

\* where a statement of the transaction can raise
Faults == {"none", "insert", "delete", "commit"}

\* close_trade with every statement committed on its own: the rollback of the
\* except block undoes nothing, a failure after the INSERT leaves the history
\* row behind
close_trade_no_rollback(db, trade_id, status, exit_price, pnl, fault) ==
    IF trade_id \notin DOMAIN db.open
    THEN [db |-> db, rolled_back |-> FALSE, error |-> "none"]
    ELSE LET trade == db.open[trade_id]
             tx1 == TxInsertHistory(db, trade, status, exit_price, pnl)
             tx2 == TxDeleteOpen(tx1, trade_id)
             error == IF fault = "none" /\ trade_id \in DOMAIN db.hist
                      THEN "insert" ELSE fault
         IN CASE error = "none" -> [db |-> tx2, rolled_back |-> FALSE, error |-> "none"]
              [] error = "insert" -> [db |-> db, rolled_back |-> TRUE, error |-> error]
              [] error = "delete" -> [db |-> tx1, rolled_back |-> TRUE, error |-> error]
              [] OTHER -> [db |-> tx2, rolled_back |-> TRUE, error |-> error]

\* close_trade on the tables db = [open, hist]: the new tables, whether the
\* transaction was rolled back, and the statement that raised.
\* get_trade_by_id finds no row: return.  A trade_id already in
\* trade_history violates the primary key: the INSERT raises.
close_trade_txn(db, trade_id, status, exit_price, pnl, fault) ==
    IF trade_id \notin DOMAIN db.open
    THEN [db |-> db, rolled_back |-> FALSE, error |-> "none"]
    ELSE LET trade == db.open[trade_id]
             tx1 == TxInsertHistory(db, trade, status, exit_price, pnl)
             tx2 == TxDeleteOpen(tx1, trade_id)
             error == IF fault = "none" /\ trade_id \in DOMAIN db.hist
                      THEN "insert" ELSE fault
         IN IF error = "none"
            THEN [db |-> tx2, rolled_back |-> FALSE, error |-> "none"]
            ELSE [db |-> db, rolled_back |-> TRUE, error |-> error]


(***************************************************************************)
(* The retry wrapper around every feed call.  outcomes[a] is what the      *)
(* a-th call of the feed function would do: answer, raise one of the       *)
(* errors of line 89 (transient), or raise another Exception.  The result  *)
(* says whether the call's answer is returned (None otherwise), how many   *)
(* calls were made, and what was logged at level error or above.           *)
(***************************************************************************)
AttemptOutcomes == {"ok", "transient", "error"}

\* logger.critical of line 95 and logger.error of line 99
ExchangeGivingUp == [kind |-> "log", text |-> "EXCHANGE_GIVING_UP", ref |-> max_retries]
ExchangeCallError == [kind |-> "log", text |-> "EXCHANGE_CALL_ERROR", ref |-> 0]

\* a wrapper that takes every exception for a transient one
RECURSIVE safe_exchange_call_retries_all(_, _)
safe_exchange_call_retries_all(outcomes, attempt) ==
    IF attempt >= max_retries
    THEN [answered |-> FALSE, calls |-> attempt, logs |-> {}]
    ELSE IF outcomes[attempt + 1] = "ok"
         THEN [answered |-> TRUE, calls |-> attempt + 1, logs |-> {}]
         ELSE IF attempt + 1 = max_retries
              THEN [answered |-> FALSE, calls |-> attempt + 1, logs |-> {ExchangeGivingUp}]
              ELSE safe_exchange_call_retries_all(outcomes, attempt + 1)

\* lines 85-102: the for loop from `attempt` on
RECURSIVE safe_exchange_call_loop(_, _)
safe_exchange_call_loop(outcomes, attempt) ==
    IF attempt >= max_retries
    THEN [answered |-> FALSE, calls |-> attempt, logs |-> {}]
    ELSE CASE outcomes[attempt + 1] = "ok" ->
                [answered |-> TRUE, calls |-> attempt + 1, logs |-> {}]
           [] outcomes[attempt + 1] = "transient" ->
                IF attempt + 1 = max_retries
                THEN [answered |-> FALSE, calls |-> attempt + 1,
                      logs |-> {ExchangeGivingUp}]
                ELSE safe_exchange_call_loop(outcomes, attempt + 1)
           [] OTHER ->
                [answered |-> FALSE, calls |-> attempt + 1, logs |-> {ExchangeCallError}]

safe_exchange_call(outcomes) == safe_exchange_call_loop(outcomes, 0)

(***************************************************************************)
(* The engine's arithmetic.                                                *)
(***************************************************************************)
\* a stop test that knows long trades only
StopCrossedLongOnly(trade, current_price) ==
    trade.is_long /\ current_price <= trade.sl_price

\* the stop test of the monitor
StopCrossed(trade, current_price) ==
    \/ trade.is_long /\ current_price <= trade.sl_price
    \/ ~trade.is_long /\ current_price >= trade.sl_price

\* a stop hit closed at the price the feed reports
ObservedPrice(trade, current_price) == current_price

\* line 146: a stop hit is closed at the stop price
StopExitPrice(trade, current_price) == trade.sl_price

\* the take-profit test of the monitor for one level
LevelReached(trade, level, current_price) ==
    \/ trade.is_long /\ current_price >= level.price
    \/ ~trade.is_long /\ current_price <= level.price

\* Python indices (0-based) of the pending levels
PendingIndices(trade) ==
    {i \in 0..(Len(trade.tp_levels) - 1) : trade.tp_levels[i + 1].status = "pending"}

\* a loop that goes on to the last pending level
LastPending(trade) ==
    CHOOSE i \in PendingIndices(trade) : \A j \in PendingIndices(trade) : i >= j

\* the level the monitor's loop stops at: the first pending one
FirstPending(trade) ==
    CHOOSE i \in PendingIndices(trade) : \A j \in PendingIndices(trade) : i <= j

SignedDiff(trade, exit_price) ==
    IF trade.is_long THEN exit_price - trade.entry_price
    ELSE -(exit_price - trade.entry_price)

\* remaining_size < 1e-8, on a size held in tenths
BelowEpsilon(size) == size <= 0

\* process_trade_closure up to its await, on the ledger L = [open, hist, balance]
process_trade_closure(L, trade, status, exit_price, fault) ==
    LET pnl == SignedDiff(trade, exit_price) * trade.remaining_size
        new_balance == L.balance + pnl
        r == close_trade_txn([open |-> L.open, hist |-> L.hist],
                             trade.trade_id, status, exit_price, pnl, fault)
    IN [open |-> r.db.open, hist |-> r.db.hist, balance |-> new_balance,
        rolled_back |-> r.rolled_back, error |-> r.error]

\* a partial closure with the sign of the slice reversed
HitLevelAddsSlice(trade, level_index) ==
    [trade EXCEPT !.remaining_size = @ + (trade.initial_size \div 10),
                  !.tp_levels[level_index + 1].status = "hit"]

\* the in-memory trade after lines 223-224 of process_partial_tp_closure
HitLevel(trade, level_index) ==
    [trade EXCEPT !.remaining_size = @ - (trade.initial_size \div 10),
                  !.tp_levels[level_index + 1].status = "hit"]

\* a partial closure that takes a tenth of what is left of the position
process_partial_tp_closure_of_remaining(L, trade, level_index, fault) ==
    LET size_to_close == trade.remaining_size \div 10
        exit_price == trade.tp_levels[level_index + 1].price
        pnl == SignedDiff(trade, exit_price) * size_to_close
        new_balance == L.balance + pnl
        t2 == [trade EXCEPT !.remaining_size = @ - size_to_close,
                            !.tp_levels[level_index + 1].status = "hit"]
        is_fully_closed == (level_index = 9) \/ BelowEpsilon(t2.remaining_size)
        r == IF is_fully_closed
             THEN close_trade_txn([open |-> L.open, hist |-> L.hist], trade.trade_id,
                                  "TP_FULL_CLOSE", exit_price, pnl, fault)
             ELSE [db |-> [open |-> update_trade(L.open, t2), hist |-> L.hist],
                   rolled_back |-> FALSE, error |-> "none"]
    IN [open |-> r.db.open, hist |-> r.db.hist, balance |-> new_balance,
        rolled_back |-> r.rolled_back, error |-> r.error, trade |-> t2]

\* process_partial_tp_closure up to its await: the ledger and the trade object
process_partial_tp_closure(L, trade, level_index, fault) ==
    LET size_to_close == trade.initial_size \div 10
        exit_price == trade.tp_levels[level_index + 1].price
        pnl == SignedDiff(trade, exit_price) * size_to_close
        new_balance == L.balance + pnl
        t2 == HitLevel(trade, level_index)
        is_fully_closed == (level_index = 9) \/ BelowEpsilon(t2.remaining_size)
        r == IF is_fully_closed
             THEN close_trade_txn([open |-> L.open, hist |-> L.hist], trade.trade_id,
                                  "TP_FULL_CLOSE", exit_price, pnl, fault)
             ELSE [db |-> [open |-> update_trade(L.open, t2), hist |-> L.hist],
                   rolled_back |-> FALSE, error |-> "none"]
    IN [open |-> r.db.open, hist |-> r.db.hist, balance |-> new_balance,
        rolled_back |-> r.rolled_back, error |-> r.error, trade |-> t2]

\* a trail that follows the price up to the level above the one just hit
NewStopAtNextLevel(trade, i) ==
    IF i = 1 /\ ~trade.sl_moved_to_be
    THEN [new_sl_price |-> trade.entry_price,
          trade |-> [trade EXCEPT !.sl_moved_to_be = TRUE]]
    ELSE IF i > 1
         THEN [new_sl_price |->
                  trade.tp_levels[IF i + 2 <= Len(trade.tp_levels)
                                  THEN i + 2 ELSE Len(trade.tp_levels)].price,
               trade |-> trade]
         ELSE [new_sl_price |-> 0, trade |-> trade]

\* the hybrid stop policy of the monitor, lines 160-174: the proposed stop
\* (0 stands for None) and the trade object with its flag
NewStop(trade, i) ==
    IF i = 1 /\ ~trade.sl_moved_to_be
    THEN [new_sl_price |-> trade.entry_price,
          trade |-> [trade EXCEPT !.sl_moved_to_be = TRUE]]
    ELSE IF i > 1
         THEN [new_sl_price |-> trade.tp_levels[i - 2 + 1].price, trade |-> trade]
         ELSE [new_sl_price |-> 0, trade |-> trade]

\* a test that applies every stop the policy proposes
StopProposed(trade, new_sl_price) == new_sl_price # 0

\* line 177: a relocation is applied only if it changes the stop
StopChanges(trade, new_sl_price) ==
    new_sl_price # 0 /\ new_sl_price # trade.sl_price

(***************************************************************************)
(* State.                                                                  *)
(***************************************************************************)
VARIABLES
    open_trades,     \* table open_trades: trade_id -> PaperTrade
    trade_history,   \* table trade_history: trade_id -> record
    settings,        \* table settings: balance, leverage, risk_per_trade
    app_state,       \* bot.py app_state: balance, leverage, pending_confirmations
    next_uuid,       \* the next trade id uuid4 hands out
    next_request,    \* the next confirmation request id
    fault_count,     \* transactions of close_trade that have failed so far
    cycle_count,     \* monitor cycles begun so far, where they are bounded
    bound,           \* the bounds of the run: trades created, cycles begun (0: any),
                     \* hashtags that arrive
    mon,             \* the market monitor task: position and locals
    hnd,             \* the update handler in flight: position and locals
    effects          \* what the last step emitted: messages handed to the notifier, prints

vars == <<open_trades, trade_history, settings, app_state, next_uuid, next_request,
          fault_count, cycle_count, bound, mon, hnd, effects>>

ledger == <<open_trades, trade_history, settings, fault_count>>

Notify(text, ref) == [kind |-> "notify", text |-> text, ref |-> ref]
Printed(text, ref) == [kind |-> "print", text |-> text, ref |-> ref]

\* the monitor between two cycles (asleep), locals dropped
MonSleep == [pc |-> "sleep", open_trades |-> << >>, tickers |-> << >>, k |-> 0, i |-> 0]

\* no handler in flight, locals dropped.  << >> stands for None.
HndIdle ==
    [pc |-> "idle",
     caller |-> "none",          \* the handler that runs: message, close, button
     pair_tag |-> << >>,         \* message_handler: pair_tag; close command: symbol
     clean |-> FALSE,            \* the caption holds nothing but keywords and the tag
     image |-> << >>,            \* photo_file_id, as what the extractor reads from it
     trading_pair |-> << >>,
     existing_trade |-> << >>,   \* message_handler: the open trade found for the pair,
                                 \* by its trade_id (no other field is read afterwards)
     trade_to_close |-> << >>,   \* close_trade_by_symbol: the trade found
     ticker |-> "unset",         \* close_trade_by_symbol: unset, None or fetched
     action |-> "none",          \* button_handler: confirm_trade or ignore_trade
     request_id |-> 0]

Ledger == [open |-> open_trades, hist |-> trade_history, balance |-> settings.balance]

SetLedger(L) ==
    /\ open_trades' = L.open
    /\ trade_history' = L.hist
    /\ settings' = [settings EXCEPT !.balance = L.balance]
    /\ fault_count' = IF L.rolled_back THEN fault_count + 1 ELSE fault_count

\* the faults a transaction may still meet
FaultsNow == IF fault_count < MaxFaults THEN Faults ELSE {"none"}

\* the monitor is between two awaits only at "evaluate"; everywhere else it is
\* suspended and a handler may run
MonitorSuspended == mon.pc # "evaluate"

Start ==
    /\ open_trades = << >>
    /\ trade_history = << >>
    /\ settings = [balance |-> Tenths(INITIAL_BALANCE),
                   leverage |-> initial_leverage,
                   risk_per_trade |-> Tenths(initial_risk)]
    /\ app_state = [balance |-> Tenths(INITIAL_BALANCE),
                    leverage |-> initial_leverage,
                    pending_confirmations |-> << >>]
    /\ next_uuid = 1
    /\ next_request = 1
    /\ fault_count = 0
    /\ cycle_count = 0
    /\ mon = MonSleep
    /\ hnd = HndIdle
    /\ effects = {}

\* many trades, few monitor cycles
Init == Start /\ bound = [trades |-> MaxTrades, cycles |-> MaxCycles, tags |-> Tags]

\* the operator's runs
InitOperator ==
    Start /\ bound = [trades |-> OperatorTrades, cycles |-> OperatorCycles, tags |-> Tags]

\* the runs in which both settings are changed
InitSettings ==
    Start /\ bound = [trades |-> SettingsTrades, cycles |-> SettingsCycles, tags |-> Tags]

\* the runs in which trades of two pairs are open
InitFeed == Start /\ bound = [trades |-> FeedTrades, cycles |-> FeedCycles, tags |-> FeedTags]

\* the runs in which the operator asks for the balance
InitQuery == Start /\ bound = [trades |-> QueryTrades, cycles |-> QueryCycles, tags |-> Tags]

\* few trades, any number of monitor cycles: the whole ladder is walked
InitLadder == Start /\ bound = [trades |-> LadderTrades, cycles |-> 0, tags |-> Tags]

(***************************************************************************)
(* market_monitor                                                          *)
(***************************************************************************)
\* logger.error of lines 198 and 201
MonitorErrorLogged == [kind |-> "log", text |-> "MONITOR_ERROR", ref |-> 0]

\* a monitor whose task ends when an exception reaches the loop
market_monitor_exits == [MonSleep EXCEPT !.pc = "exited"]

\* lines 197-202: an exception raised inside the try is logged, the monitor
\* sleeps and the while loop goes on
market_monitor_except == MonSleep

\* lines 113-122: load the open set, ask the feed for every pair.  With no
\* open trade the loop only sleeps (lines 114-116).
market_monitor_load ==
    /\ mon.pc = "sleep"
    /\ DOMAIN open_trades # {}
    /\ bound.cycles = 0 \/ cycle_count < bound.cycles
    /\ cycle_count' = IF bound.cycles = 0 THEN cycle_count ELSE cycle_count + 1
    /\ mon' = [MonSleep EXCEPT !.pc = "fetch_tickers",
                               !.open_trades = get_open_trades(open_trades)]
    /\ effects' = {}
    /\ UNCHANGED <<ledger, app_state, next_uuid, next_request, hnd, bound>>

pairs_to_watch == {mon.open_trades[n].pair : n \in 1..Len(mon.open_trades)}

\* what the feed may answer: prices for some of the pairs asked for
TickerMaps(pairs) == UNION {[S -> Prices] : S \in SUBSET pairs}

\* what the feed function may do at each call of one wrapped feed call
FeedOutcomes == [1..max_retries -> AttemptOutcomes]

\* what a feed call behind the retry wrapper can come to
FeedCalls == {safe_exchange_call(o) : o \in FeedOutcomes}

\* a monitor that goes on to evaluate whatever the feed call returned
market_monitor_tickers_unchecked ==
    /\ mon.pc = "fetch_tickers"
    /\ \E call \in FeedCalls :
       \E data \in TickerMaps(pairs_to_watch) :
          /\ mon' = [mon EXCEPT !.pc = "evaluate", !.tickers = data, !.k = 1]
          /\ effects' = call.logs
    /\ UNCHANGED <<ledger, app_state, next_uuid, next_request, hnd, cycle_count, bound>>

\* lines 122-133: the feed answered, or gave up (alert, sleep; an alert
\* that raises is logged by the except block)
market_monitor_tickers ==
    /\ mon.pc = "fetch_tickers"
    /\ \E call \in FeedCalls :
       \E data \in TickerMaps(pairs_to_watch) :
          IF ~call.answered \/ DOMAIN data = {}
          THEN \E sent \in BOOLEAN :
                 /\ mon' = IF sent THEN MonSleep ELSE market_monitor_except
                 /\ effects' = call.logs \cup {Notify("MONITOR_ALERT", 0)}
                                  \cup (IF sent THEN {} ELSE {MonitorErrorLogged})
          ELSE /\ mon' = [mon EXCEPT !.pc = "evaluate", !.tickers = data, !.k = 1]
               /\ effects' = call.logs
    /\ UNCHANGED <<ledger, app_state, next_uuid, next_request, hnd, cycle_count, bound>>

\* the for loop moves on; after the last trade the monitor sleeps (line 196)
MonNextTrade ==
    IF mon.k + 1 > Len(mon.open_trades)
    THEN MonSleep
    ELSE [mon EXCEPT !.pc = "evaluate", !.k = @ + 1, !.i = 0]

\* database.py line 236: the except block of close_trade prints the error
RolledBack(L, trade) ==
    IF L.rolled_back THEN {Printed(L.error, trade.trade_id)} ELSE {}

\* lines 136-157: one pass of the for loop, up to its first await
market_monitor_evaluate ==
    /\ mon.pc = "evaluate"
    /\ UNCHANGED <<app_state, next_uuid, next_request, hnd, cycle_count, bound>>
    /\ LET trade == mon.open_trades[mon.k]
       IN IF trade.pair \notin DOMAIN mon.tickers
          THEN /\ mon' = MonNextTrade
               /\ effects' = {}
               /\ UNCHANGED ledger
          ELSE LET current_price == mon.tickers[trade.pair]
               IN IF StopCrossed(trade, current_price)
                  THEN \E fault \in FaultsNow :
                         LET L == process_trade_closure(Ledger, trade, "SL_HIT",
                                         StopExitPrice(trade, current_price), fault)
                         IN /\ SetLedger(L)
                            /\ effects' = {Notify("SL_HIT", trade.trade_id)}
                                             \cup RolledBack(L, trade)
                            /\ mon' = [mon EXCEPT !.pc = "send_closure"]
                  ELSE IF /\ PendingIndices(trade) # {}
                          /\ LevelReached(trade, trade.tp_levels[FirstPending(trade) + 1],
                                          current_price)
                       THEN \E fault \in FaultsNow :
                              LET i == FirstPending(trade)
                                  L == process_partial_tp_closure(Ledger, trade, i, fault)
                              IN /\ SetLedger(L)
                                 /\ effects' = {Notify("PARTIAL_TP", trade.trade_id)}
                                                  \cup RolledBack(L, trade)
                                 /\ mon' = [mon EXCEPT !.pc = "send_partial", !.i = i,
                                                       !.open_trades[mon.k] = L.trade]
                       ELSE /\ mon' = MonNextTrade
                            /\ effects' = {}
                            /\ UNCHANGED ledger

\* lines 273-276 of process_trade_closure, called at line 146: the message
\* was sent (continue with the next trade) or raised (lines 200-202)
market_monitor_closure_sent ==
    /\ mon.pc = "send_closure"
    /\ \E sent \in BOOLEAN :
          IF sent
          THEN mon' = MonNextTrade /\ effects' = {}
          ELSE mon' = market_monitor_except /\ effects' = {MonitorErrorLogged}
    /\ UNCHANGED <<ledger, app_state, next_uuid, next_request, hnd, cycle_count, bound>>

\* lines 246-249 of process_partial_tp_closure, then lines 160-190 of the
\* monitor: the stop policy for the level just hit
market_monitor_partial_sent ==
    /\ mon.pc = "send_partial"
    /\ UNCHANGED <<trade_history, settings, fault_count, app_state, next_uuid,
                   next_request, hnd, cycle_count, bound>>
    /\ \E sent \in BOOLEAN :
          IF ~sent
          THEN /\ effects' = {MonitorErrorLogged}
               /\ mon' = market_monitor_except
               /\ UNCHANGED open_trades
          ELSE LET trade == mon.open_trades[mon.k]
                   ns == NewStop(trade, mon.i)
               IN IF StopChanges(ns.trade, ns.new_sl_price)
                  THEN LET t2 == [ns.trade EXCEPT !.sl_price = ns.new_sl_price]
                       IN /\ open_trades' = update_trade(open_trades, t2)
                          /\ effects' = {Notify("SL_UPDATED", trade.trade_id)}
                          /\ mon' = [mon EXCEPT !.pc = "send_sl_update",
                                                !.open_trades[mon.k] = t2]
                  ELSE /\ UNCHANGED open_trades
                       /\ effects' = {}
                       /\ mon' = MonNextTrade

\* lines 188-194: the stop-updated message was sent or raised
market_monitor_sl_update_sent ==
    /\ mon.pc = "send_sl_update"
    /\ \E sent \in BOOLEAN :
          IF sent
          THEN mon' = MonNextTrade /\ effects' = {}
          ELSE mon' = market_monitor_except /\ effects' = {MonitorErrorLogged}
    /\ UNCHANGED <<ledger, app_state, next_uuid, next_request, hnd, cycle_count, bound>>

(***************************************************************************)
(* execute_trade, lines 435-581                                            *)
(***************************************************************************)
\* a ladder whose first level is the entry price itself
tp_ladder_from_entry(entry, is_long, total_profit_range) ==
    LET step_size == total_profit_range \div 10
    IN [i \in 1..NUM_LEVELS |->
          [price |-> IF is_long THEN entry + (step_size * (i - 1))
                     ELSE entry - (step_size * (i - 1)),
           status |-> "pending"]]

\* lines 516-520 and 533-538: ten levels at equal steps from entry
tp_ladder(entry, is_long, total_profit_range) ==
    LET step_size == total_profit_range \div 10
    IN [i \in 1..NUM_LEVELS |->
          [price |-> IF is_long THEN entry + (step_size * i) ELSE entry - (step_size * i),
           status |-> "pending"]]

\* line 465: the target lies on the wrong side of entry
TargetOnWrongSide(extracted) ==
    LET is_long == extracted.stoploss < extracted.entry
    IN \/ is_long /\ extracted.target <= extracted.entry
       \/ ~is_long /\ extracted.target >= extracted.entry

\* lines 494-546: the PaperTrade built from the extracted prices; tp is the
\* target kept by lines 463-468 (0 stands for None)
new_trade(extracted, tp, trading_pair, trade_id, leverage, risk_per_trade) ==
    LET entry == extracted.entry
        sl == extracted.stoploss
        stop_loss_distance == Abs(entry - sl)
        position_size_asset == risk_per_trade \div stop_loss_distance
        is_long == sl < entry
        levels == IF tp # 0 /\ ((is_long /\ tp > entry) \/ (~is_long /\ tp < entry))
                  THEN tp_ladder(entry, is_long, Abs(tp - entry))
                  ELSE tp_ladder(entry, is_long, stop_loss_distance * FINAL_RR)
    IN [trade_id |-> trade_id, pair |-> trading_pair, entry_price |-> entry,
        sl_price |-> sl, initial_size |-> position_size_asset,
        remaining_size |-> position_size_asset, leverage |-> leverage,
        is_long |-> is_long, tp_levels |-> levels, sl_moved_to_be |-> FALSE]

\* a finally block that leaves the request where it is
KeepRequest(pending, request_id) == pending

\* the finally block of button_handler, lines 742-748
DropRequest(pending, request_id) ==
    [r \in DOMAIN pending \ {request_id} |-> pending[r]]

\* execute_trade returns after its last message `text`: message_handler ends,
\* button_handler runs its finally block
execute_trade_return(text) ==
    /\ effects' = {Notify(text, 0)}
    /\ hnd' = HndIdle
    /\ app_state' = IF hnd.caller = "button"
                    THEN [app_state EXCEPT !.pending_confirmations =
                             DropRequest(@, hnd.request_id)]
                    ELSE app_state

\* lines 476-548, reached with tp bound (a number, or None) or never assigned
\* (no 'target' key: line 515 then raises UnboundLocalError, caught at 578,
\* whose message carries the exception's text)
execute_trade_open(tp_bound, tp) ==
    IF settings.risk_per_trade > settings.balance
    THEN /\ execute_trade_return("INSUFFICIENT_BALANCE")
         /\ UNCHANGED <<open_trades, next_uuid>>
    ELSE IF ~tp_bound
         THEN /\ execute_trade_return("CRITICAL_ERROR_TP_UNASSIGNED")
              /\ UNCHANGED <<open_trades, next_uuid>>
         ELSE /\ open_trades' = add_trade(open_trades,
                                   new_trade(hnd.image, tp, hnd.trading_pair, next_uuid,
                                             settings.leverage, settings.risk_per_trade))
              /\ next_uuid' = next_uuid + 1
              /\ execute_trade_return("TRADE_OPENED")

\* lines 437-468: the image was fetched (or not) and analysed
execute_trade(fetched) ==
    LET extracted == hnd.image
    IN IF ~fetched
       THEN /\ execute_trade_return("CRITICAL_ERROR")
            /\ UNCHANGED <<open_trades, next_uuid>>
       ELSE IF ~({"entry", "stoploss"} \subseteq DOMAIN extracted)
       THEN /\ execute_trade_return("ANALYSIS_FAILED")
            /\ UNCHANGED <<open_trades, next_uuid>>
       ELSE IF extracted.entry = extracted.stoploss
       THEN /\ execute_trade_return("LOGIC_ERROR")
            /\ UNCHANGED <<open_trades, next_uuid>>
       ELSE IF "target" \in DOMAIN extracted
       THEN IF TargetOnWrongSide(extracted)
            THEN /\ hnd' = [hnd EXCEPT !.pc = "et_send_warning"]
                 /\ effects' = {Notify("TARGET_WARNING", 0)}
                 /\ UNCHANGED <<open_trades, next_uuid, app_state>>
            ELSE execute_trade_open(TRUE, extracted.target)
       ELSE execute_trade_open(FALSE, 0)

\* lines 466-468: the warning was sent (tp = None) or raised (line 578)
execute_trade_warned ==
    /\ hnd.pc = "et_send_warning"
    /\ MonitorSuspended
    /\ UNCHANGED <<trade_history, settings, fault_count, next_request, mon, cycle_count, bound>>
    /\ \E sent \in BOOLEAN :
          IF sent
          THEN execute_trade_open(TRUE, 0)
          ELSE /\ execute_trade_return("CRITICAL_ERROR")
               /\ UNCHANGED <<open_trades, next_uuid>>

(***************************************************************************)
(* close_trade_by_symbol, lines 279-325                                    *)
(***************************************************************************)
\* a test that takes the symbol itself for the prefix
MatchesBareSymbol(trade, symbol) == StartsWith(trade.pair, symbol)

\* lines 284-288: the open trades whose pair starts with symbol + '/'
MatchesSymbol(trade, symbol) == StartsWith(trade.pair, symbol \o SLASH)

\* lines 284-301, entered with the handler locals h: the first match in row
\* order is kept and its price asked for, or the not-found message is sent
close_trade_by_symbol_enter(h, symbol) ==
    LET rows == get_open_trades(open_trades)
        hits == {n \in 1..Len(rows) : MatchesSymbol(rows[n], symbol)}
    IN IF hits = {}
       THEN [h EXCEPT !.pc = "cbs_send_not_found", !.trade_to_close = << >>]
       ELSE LET n == CHOOSE x \in hits : \A y \in hits : x <= y
            IN [h EXCEPT !.pc = "cbs_fetch_ticker", !.trade_to_close = <<rows[n]>>]

close_trade_by_symbol_effects(h) ==
    IF h.pc = "cbs_send_not_found" THEN {Notify("NO_OPEN_TRADE", 0)} ELSE {}

\* close_trade_by_symbol returns: message_handler goes on to validate the
\* pair (line 667), the close command ends
close_trade_by_symbol_return(h) ==
    IF h.caller = "message"
    THEN [h EXCEPT !.pc = "mh_load_markets", !.trade_to_close = << >>]
    ELSE HndIdle

\* /close_by_symbol <SYMBOL>, lines 393-402
close_command_handler ==
    /\ hnd.pc = "idle"
    /\ MonitorSuspended
    /\ \E symbol \in CloseSymbols :
          LET h == close_trade_by_symbol_enter(
                      [HndIdle EXCEPT !.caller = "close", !.pair_tag = symbol], symbol)
          IN /\ hnd' = h
             /\ effects' = close_trade_by_symbol_effects(h)
    /\ UNCHANGED <<ledger, app_state, next_uuid, next_request, mon, cycle_count, bound>>

\* every await of close_trade_by_symbol, resumed
close_trade_by_symbol_resume ==
    /\ hnd.pc \in {"cbs_send_not_found", "cbs_fetch_ticker", "cbs_send", "cbs_send_error"}
    /\ MonitorSuspended
    /\ UNCHANGED <<app_state, next_uuid, next_request, mon, cycle_count, bound>>
    /\ CASE hnd.pc = "cbs_send_not_found" ->
              \* lines 291-296, outside the try: a failed send ends the handler
              /\ \E sent \in BOOLEAN :
                    hnd' = IF sent THEN close_trade_by_symbol_return(hnd) ELSE HndIdle
              /\ effects' = {}
              /\ UNCHANGED ledger
         [] hnd.pc = "cbs_fetch_ticker" ->
              \* lines 301-315: no price (the failure message), or a price
              \* (process_trade_closure up to its message)
              \E call \in FeedCalls :
              \E last \in Prices :
              \E fault \in FaultsNow :
                 IF ~call.answered
                 THEN /\ hnd' = [hnd EXCEPT !.pc = "cbs_send", !.ticker = "None"]
                      /\ effects' = call.logs \cup {Notify("CLOSE_FAILED", 0)}
                      /\ UNCHANGED ledger
                 ELSE LET trade == hnd.trade_to_close[1]
                          L == process_trade_closure(Ledger, trade, "MANUAL_CLOSE",
                                                     last, fault)
                      IN /\ SetLedger(L)
                         /\ effects' = {Notify("MANUAL_CLOSE", trade.trade_id)}
                                          \cup RolledBack(L, trade)
                                          \cup call.logs
                         /\ hnd' = [hnd EXCEPT !.pc = "cbs_send", !.ticker = "fetched"]
         [] hnd.pc = "cbs_send" ->
              \* a message inside the try was sent, or raised (lines 318-325)
              /\ \E sent \in BOOLEAN :
                    IF sent
                    THEN /\ hnd' = close_trade_by_symbol_return(hnd)
                         /\ effects' = {}
                    ELSE /\ hnd' = [hnd EXCEPT !.pc = "cbs_send_error"]
                         /\ effects' = {Notify("CLOSE_ERROR", 0)}
              /\ UNCHANGED ledger
         [] OTHER ->
              \* the message of the except block was sent, or raised
              /\ \E sent \in BOOLEAN :
                    hnd' = IF sent THEN close_trade_by_symbol_return(hnd) ELSE HndIdle
              /\ effects' = {}
              /\ UNCHANGED ledger

(***************************************************************************)
(* set_risk_command, lines 359-390                                         *)
(***************************************************************************)
\* a command that writes the amount to the setting 'balance'
set_risk_command_writes_balance ==
    /\ hnd.pc = "idle"
    /\ MonitorSuspended
    /\ \E new_risk \in RiskArgs :
          IF new_risk <= 0
          THEN /\ effects' = {Notify("INVALID_RISK", 0)}
               /\ UNCHANGED settings
          ELSE /\ settings' = [settings EXCEPT !.balance = new_risk]
               /\ effects' = {Notify("RISK_UPDATED", new_risk)}
    /\ UNCHANGED <<open_trades, trade_history, fault_count, app_state, next_uuid,
                   next_request, mon, hnd, cycle_count, bound>>

\* /setrisk <amount>.  The warning of line 373 is awaited before the setting
\* is written: if it raises, the except block answers and nothing is
\* written.  No other task reads or writes risk_per_trade in between, so the
\* handler is one step.
set_risk_command ==
    /\ hnd.pc = "idle"
    /\ MonitorSuspended
    /\ \E new_risk \in RiskArgs, warned \in BOOLEAN :
          LET current_balance == settings.balance
          IN IF new_risk <= 0
             THEN /\ effects' = {Notify("INVALID_RISK", 0)}
                  /\ UNCHANGED settings
             ELSE IF new_risk > current_balance /\ ~warned
             THEN /\ effects' = {Notify("RISK_ERROR", 0)}
                  /\ UNCHANGED settings
             ELSE /\ settings' = [settings EXCEPT !.risk_per_trade = new_risk]
                  /\ effects' = {Notify("RISK_UPDATED", new_risk)}
    /\ UNCHANGED <<open_trades, trade_history, fault_count, app_state, next_uuid,
                   next_request, mon, hnd, cycle_count, bound>>

(***************************************************************************)
(* set_leverage_command, lines 327-356                                     *)
(***************************************************************************)
\* line 335: the value is turned down
LeverageRejected(new_leverage) ==
    FloatLess(new_leverage, 1) \/ FloatLess(125, new_leverage)

\* /setleverage <value>.  A value that is turned down is answered and
\* nothing is written; any other is written to the settings table and to
\* app_state before the answer is awaited.  A reply that raises is answered
\* by the except block and changes nothing more.
set_leverage_command ==
    /\ hnd.pc = "idle"
    /\ MonitorSuspended
    /\ \E new_leverage \in LeverageArgs :
          IF LeverageRejected(new_leverage)
          THEN /\ effects' = {Notify("INVALID_LEVERAGE", 0)}
               /\ UNCHANGED <<settings, app_state>>
          ELSE /\ settings' = [settings EXCEPT !.leverage = new_leverage]
               /\ app_state' = [app_state EXCEPT !.leverage = new_leverage]
               /\ effects' = {Notify("LEVERAGE_UPDATED", new_leverage)}
    /\ UNCHANGED <<open_trades, trade_history, fault_count, next_uuid,
                   next_request, mon, hnd, cycle_count, bound>>

(***************************************************************************)
(* message_handler, lines 584-714                                          *)
(***************************************************************************)
\* an image execute_trade opens no trade from: lines 449 and 515 end it.
\* Once the run has created the trades it may, only such signals arrive.
OpensNoTrade(image) == ~({"entry", "stoploss", "target"} \subseteq DOMAIN image)

\* a captioned photo arrives: lines 589-617, up to the download of the image
message_handler ==
    /\ hnd.pc = "idle"
    /\ MonitorSuspended
    /\ \E pair_tag \in bound.tags, clean \in BOOLEAN, image \in Images :
          /\ next_uuid <= bound.trades \/ (clean /\ OpensNoTrade(image))
          /\ clean \/ next_request <= MaxRequests
          /\ hnd' = IF pair_tag \in BLACKLISTED_COINS
                    THEN HndIdle
                    ELSE [HndIdle EXCEPT !.pc = "mh_download", !.caller = "message",
                                         !.pair_tag = pair_tag, !.clean = clean,
                                         !.image = image,
                                         !.trading_pair = TradingPair(pair_tag)]
    /\ effects' = {}
    /\ UNCHANGED <<ledger, app_state, next_uuid, next_request, mon, cycle_count, bound>>

\* lines 630-635: the first open trade of the pair, in row order
FindExisting(trading_pair) ==
    LET rows == get_open_trades(open_trades)
        hits == {n \in 1..Len(rows) : rows[n].pair = trading_pair}
    IN IF hits = {} THEN << >>
       ELSE <<rows[CHOOSE x \in hits : \A y \in hits : x <= y]>>

\* line 626
SignalIsLong(extracted) == extracted.stoploss < extracted.entry

\* lines 638-660: what message_handler does about the trade it found
ReversalDecision(existing_trade, new_signal_is_long) ==
    IF existing_trade = << >> THEN "open"
    ELSE IF existing_trade[1].is_long # new_signal_is_long THEN "reverse"
    ELSE "ignore"

\* lines 618-660: pre-analysis and the reversal decision
message_handler_decide ==
    /\ hnd.pc = "mh_download"
    /\ MonitorSuspended
    /\ UNCHANGED <<ledger, app_state, next_uuid, next_request, mon, cycle_count, bound>>
    /\ \E fetched \in BOOLEAN :
       LET extracted_prices == hnd.image
           existing_trade == FindExisting(hnd.trading_pair)
       IN IF ~fetched
          THEN \* lines 614-617 raised: the handler ends
               /\ hnd' = HndIdle
               /\ effects' = {}
          ELSE IF ~({"entry", "stoploss"} \subseteq DOMAIN extracted_prices)
          THEN /\ hnd' = HndIdle
               /\ effects' = {Notify("SIGNAL_IGNORED_NO_PRICES", 0)}
          ELSE LET decision == ReversalDecision(existing_trade,
                                                SignalIsLong(extracted_prices))
               IN CASE decision = "open" ->
                         /\ hnd' = [hnd EXCEPT !.pc = "mh_load_markets"]
                         /\ effects' = {}
                    [] decision = "reverse" ->
                         /\ hnd' = [hnd EXCEPT !.pc = "mh_send_reversal",
                                               !.existing_trade =
                                                    <<existing_trade[1].trade_id>>]
                         /\ effects' = {Notify("REVERSAL", existing_trade[1].trade_id)}
                    [] OTHER ->
                         /\ hnd' = HndIdle
                         /\ effects' = {Notify("SIGNAL_IGNORED_SAME_DIRECTION",
                                               existing_trade[1].trade_id)}

\* lines 645-650: the reversal notice was sent (close_trade_by_symbol is
\* entered) or raised (the handler ends)
message_handler_reversal ==
    /\ hnd.pc = "mh_send_reversal"
    /\ MonitorSuspended
    /\ \E sent \in BOOLEAN :
          IF sent
          THEN LET h == close_trade_by_symbol_enter(hnd, hnd.pair_tag)
               IN /\ hnd' = h
                  /\ effects' = close_trade_by_symbol_effects(h)
          ELSE /\ effects' = {}
               /\ hnd' = HndIdle
    /\ UNCHANGED <<ledger, app_state, next_uuid, next_request, mon, cycle_count, bound>>

\* what exchange.load_markets / exchange.market can answer, lines 666-680
MarketAnswers == {"swap", "not_swap", "bad_symbol", "error"}

\* a routing that hands every signal of a valid pair to execute_trade
message_handler_route_executes_all ==
    /\ hnd.pc = "mh_load_markets"
    /\ MonitorSuspended
    /\ UNCHANGED <<trade_history, settings, fault_count, next_request, mon, cycle_count, bound>>
    /\ \E market \in MarketAnswers, fetched \in BOOLEAN :
          CASE market = "swap" -> execute_trade(fetched)
            [] market = "error" ->
                 /\ hnd' = HndIdle
                 /\ effects' = {Notify("VALIDATION_ERROR", 0)}
                 /\ UNCHANGED <<open_trades, next_uuid, app_state>>
            [] OTHER ->
                 /\ hnd' = HndIdle
                 /\ effects' = {}
                 /\ UNCHANGED <<open_trades, next_uuid, app_state>>

\* lines 666-714: the pair is validated, then the caption is routed: a clean
\* one to execute_trade, any other to the confirmation prompt
message_handler_route ==
    /\ hnd.pc = "mh_load_markets"
    /\ MonitorSuspended
    /\ UNCHANGED <<trade_history, settings, fault_count, next_request, mon, cycle_count, bound>>
    /\ \E market \in MarketAnswers, fetched \in BOOLEAN :
          CASE market = "swap" /\ hnd.clean -> execute_trade(fetched)
            [] market = "swap" /\ ~hnd.clean ->
                 /\ hnd' = [hnd EXCEPT !.pc = "mh_send_prompt"]
                 /\ effects' = {Notify("CONFIRM_PROMPT", 0)}
                 /\ UNCHANGED <<open_trades, next_uuid, app_state>>
            [] market = "error" ->
                 /\ hnd' = HndIdle
                 /\ effects' = {Notify("VALIDATION_ERROR", 0)}
                 /\ UNCHANGED <<open_trades, next_uuid, app_state>>
            [] OTHER ->
                 /\ hnd' = HndIdle
                 /\ effects' = {}
                 /\ UNCHANGED <<open_trades, next_uuid, app_state>>

\* lines 695-714: the signal was forwarded and the prompt sent (the request
\* is saved) or one of them raised
message_handler_prompt ==
    /\ hnd.pc = "mh_send_prompt"
    /\ MonitorSuspended
    /\ \E sent \in BOOLEAN :
          IF sent
          THEN /\ app_state' =
                    [app_state EXCEPT !.pending_confirmations =
                        [r \in DOMAIN @ \cup {next_request} |->
                            IF r = next_request
                            THEN [trading_pair |-> hnd.trading_pair,
                                  photo_file_id |-> hnd.image]
                            ELSE @[r]]]
               /\ next_request' = next_request + 1
          ELSE UNCHANGED <<app_state, next_request>>
    /\ effects' = {}
    /\ hnd' = HndIdle
    /\ UNCHANGED <<ledger, next_uuid, mon, cycle_count, bound>>

(***************************************************************************)
(* button_handler, lines 716-748                                           *)
(***************************************************************************)
\* a confirmation button is pressed: lines 719-740, up to the edit of the
\* button's message.  query.answer() is awaited outside the try: if it
\* raises, the handler ends there.  A request that is not pending ends
\* with the 'expired' edit.
button_handler ==
    /\ hnd.pc = "idle"
    /\ MonitorSuspended
    /\ next_uuid <= bound.trades
    /\ \E action \in {"confirm_trade", "ignore_trade"}, request_id \in 1..(next_request - 1),
          answered \in BOOLEAN :
          LET pending_requests == app_state.pending_confirmations
          IN IF ~answered
             THEN /\ hnd' = HndIdle
                  /\ effects' = {}
             ELSE IF request_id \notin DOMAIN pending_requests
             THEN /\ hnd' = HndIdle
                  /\ effects' = {Notify("EXPIRED", 0)}
             ELSE LET request_data == pending_requests[request_id]
                      text == IF action = "confirm_trade" THEN "CONFIRMING" ELSE "IGNORED"
                  IN /\ hnd' = [HndIdle EXCEPT !.pc = "bh_send_edit", !.caller = "button",
                                               !.action = action, !.request_id = request_id,
                                               !.trading_pair = request_data.trading_pair,
                                               !.image = request_data.photo_file_id]
                     /\ effects' = {Notify(text, 0)}
    /\ UNCHANGED <<ledger, app_state, next_uuid, next_request, mon, cycle_count, bound>>

\* lines 735-748: after the edit a confirmed request goes on to
\* execute_trade; an ignored one, or an edit that raised, ends in the
\* finally block
button_handler_edit ==
    /\ hnd.pc = "bh_send_edit"
    /\ MonitorSuspended
    /\ UNCHANGED <<trade_history, settings, fault_count, next_request, mon, cycle_count, bound>>
    /\ \E sent \in BOOLEAN, fetched \in BOOLEAN :
          IF sent /\ hnd.action = "confirm_trade"
          THEN execute_trade(fetched)
          ELSE /\ hnd' = HndIdle
               /\ effects' = {}
               /\ app_state' = [app_state EXCEPT !.pending_confirmations =
                                   DropRequest(@, hnd.request_id)]
               /\ UNCHANGED <<open_trades, next_uuid>>

(***************************************************************************)
(* balance_command, lines 413-415                                          *)
(***************************************************************************)
\* /balance: the reply carries app_state['balance'], the value main loaded
\* at startup (line 760).  A reply that raises changes nothing either.
balance_command ==
    /\ hnd.pc = "idle"
    /\ MonitorSuspended
    /\ LET balance == app_state.balance
       IN effects' = {Notify("CURRENT_BALANCE", balance)}
    /\ UNCHANGED <<ledger, app_state, next_uuid, next_request, mon, hnd, cycle_count, bound>>

Next ==
    \/ market_monitor_load
    \/ market_monitor_tickers
    \/ market_monitor_evaluate
    \/ market_monitor_closure_sent
    \/ market_monitor_partial_sent
    \/ market_monitor_sl_update_sent
    \/ message_handler
    \/ message_handler_decide
    \/ message_handler_reversal
    \/ message_handler_route
    \/ message_handler_prompt
    \/ execute_trade_warned
    \/ close_command_handler
    \/ close_trade_by_symbol_resume
    \/ button_handler
    \/ button_handler_edit

Spec == Init /\ [][Next]_vars

SpecLadder == InitLadder /\ [][Next]_vars

SpecFeed == InitFeed /\ [][Next]_vars

\* the program with an operator who also changes the risk amount
NextOperator ==
    \/ Next
    \/ set_risk_command

SpecOperator == InitOperator /\ [][NextOperator]_vars

\* the program with an operator who changes the risk amount and the leverage
NextSettings ==
    \/ NextOperator
    \/ set_leverage_command

SpecSettings == InitSettings /\ [][NextSettings]_vars

\* the program with an operator who asks for the balance
NextQuery ==
    \/ Next
    \/ balance_command

SpecQuery == InitQuery /\ [][NextQuery]_vars

\* The event loop resumes the monitor's task when what it awaits is over
\* (a sleep, a feed call, a send; each returns or raises): a step of the
\* monitor that can be taken is taken.
MonitorFairness ==
    /\ WF_vars(market_monitor_load)
    /\ WF_vars(market_monitor_tickers)
    /\ WF_vars(market_monitor_evaluate)
    /\ WF_vars(market_monitor_closure_sent)
    /\ WF_vars(market_monitor_partial_sent)
    /\ WF_vars(market_monitor_sl_update_sent)

\* the least of it: a cycle that can begin does begin
SpecFair == Spec /\ WF_vars(market_monitor_load)

SpecLadderFair == SpecLadder /\ MonitorFairness

(***************************************************************************)
(* The monitor and the handlers.  No handler closes a trade: the test of   *)
(* close_trade_by_symbol matches no pair that message_handler builds, so   *)
(* the trade the monitor evaluates is always in the open set and the case  *)
(* of C1 (a snapshot trade closed by a handler at a yield point) does not  *)
(* arise.                                                                  *)
(***************************************************************************)
SnapshotNeverStale ==
    /\ mon.pc = "evaluate" => mon.open_trades[mon.k].trade_id \in DOMAIN open_trades
    /\ hnd.pc # "cbs_fetch_ticker"

(***************************************************************************)
(* Properties of the ledger's closure transaction.                         *)
(***************************************************************************)
\* C2: closure is atomic.  Every trade that was opened is in exactly one of
\* the open set and the history, and after a close_trade that failed (its
\* error is printed) the trade is still open and history holds no record
\* of it.
C2_ClosureAtomic ==
    /\ \A id \in 1..(next_uuid - 1) :
          (id \in DOMAIN open_trades) # (id \in DOMAIN trade_history)
    /\ \A e \in effects :
          e.kind = "print" =>
              e.ref \in DOMAIN open_trades /\ e.ref \notin DOMAIN trade_history

\* a closure has just failed between its INSERT and its DELETE; another
\* trade was closed before and is in the history
C2_FailedBetweenInsertAndDelete ==
    /\ \E e \in effects :
          /\ e.kind = "print" /\ e.text = "delete"
          /\ e.ref \in DOMAIN open_trades
          /\ e.ref \notin DOMAIN trade_history
    /\ DOMAIN trade_history # {}

(***************************************************************************)
(* Properties of signal intake.                                            *)
(***************************************************************************)
\* C3: no two trades of the open set have the same symbol.
C3_OneOpenTradePerSymbol ==
    \A a \in DOMAIN open_trades : \A b \in DOMAIN open_trades :
        open_trades[a].pair = open_trades[b].pair => a = b

\* C4: a reversal closes the existing trade before it opens the new one.
\* When the handler of a signal that was taken as a reversal adds its new
\* trade, and the price feed did not fail it, the trade it found is out of
\* the open set and in the history.
C4_ReversalClosesExisting ==
    [][(/\ hnd.caller = "message"
        /\ hnd.existing_trade # << >>
        /\ hnd.ticker # "None"
        /\ next_uuid' = next_uuid + 1)
       => (/\ hnd.existing_trade[1] \notin DOMAIN open_trades'
           /\ hnd.existing_trade[1] \in DOMAIN trade_history')]_vars

\* C5: a signal whose direction is that of an open trade of its symbol is
\* rejected as a no-op.  When message_handler decides about such a signal it
\* ends there, and the open set with every trade record, the history, the
\* balance and the pending confirmations are unchanged.
C5_SameDirectionRejected ==
    [][(/\ hnd.pc = "mh_download"
        /\ hnd' # hnd
        /\ {"entry", "stoploss"} \subseteq DOMAIN hnd.image
        /\ \E id \in DOMAIN open_trades :
              /\ open_trades[id].pair = hnd.trading_pair
              /\ open_trades[id].is_long = (hnd.image.stoploss < hnd.image.entry))
       => (/\ hnd'.pc = "idle"
           /\ UNCHANGED <<open_trades, trade_history, settings, app_state>>)]_vars


(***************************************************************************)
(* Properties of the take-profit ladder and the stop.                      *)
(***************************************************************************)
\* C6: the remaining size of every trade record is at least 0 and at most
\* its initial size, and it never increases from one state to the next.
C6_RemainingSizeBounded ==
    /\ [](\A id \in DOMAIN open_trades :
             /\ 0 <= open_trades[id].remaining_size
             /\ open_trades[id].remaining_size <= open_trades[id].initial_size)
    /\ [][\A id \in DOMAIN open_trades \cap DOMAIN open_trades' :
             open_trades'[id].remaining_size <= open_trades[id].remaining_size]_vars

\* a trade record nine slices down: a tenth of its size is left
C6_NineSlicesClosed ==
    \E id \in DOMAIN open_trades :
        /\ open_trades[id].remaining_size > 0
        /\ open_trades[id].remaining_size * 10 = open_trades[id].initial_size

\* C7: in every trade, stored or held by the monitor during its cycle, the
\* levels that are hit are a prefix of the ladder, and a stored level that
\* is hit never goes back to pending.
C7_LadderHitPrefix ==
    /\ [](/\ \A id \in DOMAIN open_trades :
               \A j \in 1..NUM_LEVELS : \A i \in 1..(j - 1) :
                  open_trades[id].tp_levels[j].status = "hit"
                     => open_trades[id].tp_levels[i].status = "hit"
          /\ \A n \in 1..Len(mon.open_trades) :
               \A j \in 1..NUM_LEVELS : \A i \in 1..(j - 1) :
                  mon.open_trades[n].tp_levels[j].status = "hit"
                     => mon.open_trades[n].tp_levels[i].status = "hit")
    /\ [][\A id \in DOMAIN open_trades \cap DOMAIN open_trades' :
             \A i \in 1..NUM_LEVELS :
                open_trades[id].tp_levels[i].status = "hit"
                   => open_trades'[id].tp_levels[i].status = "hit"]_vars

\* a trade record with five levels hit and the sixth pending
C7_HalfTheLadderHit ==
    \E id \in DOMAIN open_trades :
        /\ open_trades[id].tp_levels[5].status = "hit"
        /\ open_trades[id].tp_levels[6].status = "pending"

\* the monitor is about to evaluate a stored trade whose stop the observed
\* price has crossed against its direction
StopIsHit ==
    /\ mon.pc = "evaluate"
    /\ mon.open_trades[mon.k].trade_id \in DOMAIN open_trades
    /\ LET t == open_trades[mon.open_trades[mon.k].trade_id]
       IN /\ t.pair \in DOMAIN mon.tickers
          /\ \/ t.is_long /\ mon.tickers[t.pair] <= t.sl_price
             \/ ~t.is_long /\ mon.tickers[t.pair] >= t.sl_price

\* the evaluation books (stop - entry) x remaining size, signed by the
\* direction, and moves the trade to the history with the stop as its exit
ClosesAtStop ==
    LET id == mon.open_trades[mon.k].trade_id
        t == open_trades[id]
        pnl == (IF t.is_long THEN t.sl_price - t.entry_price
                ELSE t.entry_price - t.sl_price) * t.remaining_size
    IN /\ settings'.balance = settings.balance + pnl
       /\ id \notin DOMAIN open_trades'
       /\ id \in DOMAIN trade_history'
       /\ trade_history'[id].status = "SL_HIT"
       /\ trade_history'[id].exit_price = t.sl_price
       /\ trade_history'[id].pnl = pnl

\* C8, as stated: whenever the observed price has crossed the stop, the
\* evaluation closes the trade at the stop price: balance, history record
\* and removal from the open set.
C8_StopHitAlwaysCloses ==
    [][StopIsHit => ClosesAtStop]_vars

\* C8, amended: whenever the observed price has crossed the stop, the
\* evaluation closes the trade at the stop price, unless the closing
\* transaction fails and is rolled back; a trade that is in the history is
\* never in the open set again.
C8_StopHitClosesAtStop ==
    /\ [][StopIsHit =>
            \/ ClosesAtStop
            \/ \E e \in effects' :
                  e.kind = "print" /\ e.ref = mon.open_trades[mon.k].trade_id]_vars
    /\ [][\A id \in DOMAIN trade_history : id \notin DOMAIN open_trades']_vars

\* a trade has just been stopped out at a price other than the observed one
C8_StoppedOutBelowStop ==
    /\ mon.pc = "send_closure"
    /\ LET t == mon.open_trades[mon.k]
       IN /\ t.trade_id \in DOMAIN trade_history
          /\ t.trade_id \notin DOMAIN open_trades
          /\ trade_history[t.trade_id].status = "SL_HIT"
          /\ trade_history[t.trade_id].exit_price # mon.tickers[t.pair]

\* C9: once level index 1 is hit the stop is at the entry price and the
\* break-even flag is set, both in the stored record, and two slices of a
\* tenth of the initial size are closed.  Stated between monitor cycles,
\* for a trade whose level index 2 is still pending.
C9_BreakEvenAtSecondLevel ==
    mon.pc = "sleep" =>
        \A id \in DOMAIN open_trades :
            (/\ open_trades[id].tp_levels[2].status = "hit"
             /\ open_trades[id].tp_levels[3].status = "pending")
            => (/\ open_trades[id].remaining_size =
                      open_trades[id].initial_size
                         - 2 * (open_trades[id].initial_size \div 10)
                /\ open_trades[id].sl_price = open_trades[id].entry_price
                /\ open_trades[id].sl_moved_to_be)

\* C10: once level index i > 1 is hit the stop is at the price of level
\* index i - 2.  Stated between monitor cycles, for the highest level hit
\* (level index i is the ladder's element i + 1).
C10_StopTwoRungsBehind ==
    mon.pc = "sleep" =>
        \A id \in DOMAIN open_trades : \A i \in 2..(NUM_LEVELS - 1) :
            (/\ open_trades[id].tp_levels[i + 1].status = "hit"
             /\ (i + 1 < NUM_LEVELS => open_trades[id].tp_levels[i + 2].status = "pending"))
            => open_trades[id].sl_price = open_trades[id].tp_levels[i - 1].price

(***************************************************************************)
(* Properties of execute_trade.                                            *)
(***************************************************************************)
\* the extractor read an entry, a different stop, and a target on the
\* profitable side of the entry
HasGoodTarget(image) ==
    /\ {"entry", "stoploss", "target"} \subseteq DOMAIN image
    /\ image.entry # image.stoploss
    /\ IF image.stoploss < image.entry THEN image.target > image.entry
       ELSE image.target < image.entry

\* the handler is inside execute_trade, or about to enter it
InExecuteTrade == hnd.pc \in {"mh_load_markets", "bh_send_edit", "et_send_warning"}

\* the step adds exactly the trade next_uuid to the open set and changes no
\* other record
AddsOneTrade ==
    /\ next_uuid' = next_uuid + 1
    /\ next_uuid \notin DOMAIN open_trades
    /\ DOMAIN open_trades' = DOMAIN open_trades \cup {next_uuid}
    /\ \A id \in DOMAIN open_trades : open_trades'[id] = open_trades[id]

\* C11: open() with entry e, stop s # e, a target t on the profitable side
\* and risk r <= balance creates exactly one trade: Long iff s < e, initial
\* size = remaining size = r / |e - s|, break-even flag unset, ten pending
\* levels at e +/- k * |t - e| / 10 in the favourable direction, the last one
\* at t.  A run of execute_trade on such inputs that is not cut short by an
\* error of the download or the notifier opens the trade.
C11_OpenBuildsTheTrade ==
    /\ [][(/\ next_uuid' # next_uuid
           /\ HasGoodTarget(hnd.image))
          => (/\ AddsOneTrade
              /\ settings.risk_per_trade <= settings.balance
              /\ LET e == hnd.image.entry
                     s == hnd.image.stoploss
                     t == hnd.image.target
                     r == settings.risk_per_trade
                     trade == open_trades'[next_uuid]
                 IN /\ trade.pair = hnd.trading_pair
                    /\ trade.entry_price = e
                    /\ trade.sl_price = s
                    /\ trade.is_long = (s < e)
                    /\ trade.initial_size * Abs(e - s) = r
                    /\ trade.remaining_size = trade.initial_size
                    /\ ~trade.sl_moved_to_be
                    /\ Len(trade.tp_levels) = NUM_LEVELS
                    /\ \A k \in 1..NUM_LEVELS :
                          /\ trade.tp_levels[k].status = "pending"
                          /\ NUM_LEVELS * (trade.tp_levels[k].price - e) =
                                (IF s < e THEN k ELSE -k) * Abs(t - e)
                    /\ trade.tp_levels[NUM_LEVELS].price = t)]_vars
    /\ [][(/\ InExecuteTrade
           /\ HasGoodTarget(hnd.image)
           /\ settings.risk_per_trade <= settings.balance
           /\ hnd'.pc = "idle"
           /\ effects' # {}
           /\ effects' \cap {Notify("CRITICAL_ERROR", 0), Notify("VALIDATION_ERROR", 0)} = {})
          => (/\ effects' = {Notify("TRADE_OPENED", 0)}
              /\ AddsOneTrade)]_vars

\* the example of the claim has just been opened: entry 100, stop 90, target
\* 200, risk 50 give a long trade of size 5 with levels 110, 120, ..., 200
C11_ExampleOpened ==
    /\ effects = {Notify("TRADE_OPENED", 0)}
    /\ settings.risk_per_trade = Tenths(50)
    /\ next_uuid - 1 \in DOMAIN open_trades
    /\ LET trade == open_trades[next_uuid - 1]
       IN /\ trade.entry_price = 100 /\ trade.sl_price = 90
          /\ trade.is_long
          /\ trade.initial_size = Tenths(5)
          /\ trade.remaining_size = Tenths(5)
          /\ \A k \in 1..NUM_LEVELS :
                trade.tp_levels[k] = [price |-> 100 + 10 * k, status |-> "pending"]

\* the extractor read an entry and a different stop, and no target or one
\* on the wrong side of the entry
HasNoValidTarget(image) ==
    /\ {"entry", "stoploss"} \subseteq DOMAIN image
    /\ image.entry # image.stoploss
    /\ "target" \in DOMAIN image => TargetOnWrongSide(image)

\* C12: open() with entry e # stop s and risk <= balance succeeds also when
\* no valid target exists (none was read, or it lies on the wrong side of
\* the entry): a run of execute_trade on such inputs that is not cut short
\* by an error of the download or the notifier opens exactly one trade, with
\* ten pending levels at e +/- k * |e - s| in the favourable direction.
C12_OpensWithDefaultLadder ==
    [][(/\ InExecuteTrade
        /\ HasNoValidTarget(hnd.image)
        /\ settings.risk_per_trade <= settings.balance
        /\ hnd'.pc = "idle"
        /\ effects' # {}
        /\ effects' \cap {Notify("CRITICAL_ERROR", 0), Notify("VALIDATION_ERROR", 0)} = {})
       => (/\ effects' = {Notify("TRADE_OPENED", 0)}
           /\ AddsOneTrade
           /\ LET e == hnd.image.entry
                  s == hnd.image.stoploss
                  trade == open_trades'[next_uuid]
              IN /\ Len(trade.tp_levels) = NUM_LEVELS
                 /\ \A k \in 1..NUM_LEVELS :
                       /\ trade.tp_levels[k].status = "pending"
                       /\ trade.tp_levels[k].price =
                             e + (IF s < e THEN k ELSE -k) * Abs(e - s))]_vars

(***************************************************************************)
(* Properties of the rejections.                                           *)
(***************************************************************************)
\* the image of the signal whose handler takes the step: the one it holds,
\* or the one it picks up when it starts
SignalImage == IF hnd.pc = "idle" THEN hnd'.image ELSE hnd.image

\* execute_trade turns the signal down: entry equals stop, or the risk
\* amount is above the balance
IsRejected(image) ==
    /\ {"entry", "stoploss"} \subseteq DOMAIN image
    /\ \/ image.entry = image.stoploss
       \/ settings.risk_per_trade > settings.balance

FirstSettled(outcomes) ==
    IF \A n \in DOMAIN outcomes : outcomes[n] = "transient" THEN 0
    ELSE CHOOSE n \in DOMAIN outcomes :
            /\ outcomes[n] # "transient"
            /\ \A m \in 1..(n - 1) : outcomes[m] = "transient"

\* C14: the retry wrapper ends after at most max_retries = 3 calls of the
\* feed function, whatever the feed does: it returns the first answer, no
\* data after three transient failures in a row, and no data at once, with
\* no further call, on any other error; it always returns.  The caller that
\* is told of a failure got no data.
C14_RetryWrapperBounded ==
    /\ \A outcomes \in FeedOutcomes :
          LET call == safe_exchange_call(outcomes)
              n == FirstSettled(outcomes)
          IN /\ call.answered \in BOOLEAN
             /\ call.calls \in 1..max_retries
             /\ n = 0 => ~call.answered /\ call.calls = max_retries
                           /\ call.logs = {ExchangeGivingUp}
             /\ n # 0 => /\ call.calls = n
                         /\ call.answered <=> outcomes[n] = "ok"
                         /\ ~call.answered => call.logs = {ExchangeCallError}
    /\ effects \cap {ExchangeGivingUp, ExchangeCallError} # {}
          => /\ mon.pc = "sleep"
             /\ Notify("MONITOR_ALERT", 0) \in effects

\* the monitor's feed call has just given up after three transient failures
C14_GaveUpAfterThree ==
    /\ ExchangeGivingUp \in effects
    /\ ExchangeGivingUp.ref = max_retries
    /\ mon.pc = "sleep"
    /\ DOMAIN open_trades # {}

\* C15: when the batched price fetch of a cycle yields no data after its
\* retries, the monitor skips the cycle: it evaluates no trade and goes to
\* sleep, it changes no trade record, balance or history entry (neither
\* when it loads the open set nor when the fetch returns), and it hands an
\* alert for the operator to the notifier.
C15_NoDataSkipsCycle ==
    /\ [][(/\ mon.pc = "fetch_tickers"
           /\ effects' \cap {ExchangeGivingUp, ExchangeCallError} # {})
          => (/\ mon' = MonSleep
              /\ UNCHANGED <<open_trades, trade_history, settings>>
              /\ Notify("MONITOR_ALERT", 0) \in effects')]_vars
    /\ [][(mon.pc = "sleep" /\ mon'.pc = "fetch_tickers")
          => UNCHANGED <<open_trades, trade_history, settings>>]_vars

\* a cycle has just been skipped on a feed error that is not retried, with
\* a trade open whose stop no price was compared with
C15_CycleSkipped ==
    /\ mon = MonSleep
    /\ ExchangeCallError \in effects
    /\ Notify("MONITOR_ALERT", 0) \in effects
    /\ \E id \in DOMAIN open_trades :
          open_trades[id].remaining_size = open_trades[id].initial_size

(***************************************************************************)
(* The monitor's loop.                                                     *)
(***************************************************************************)
\* C16: no error ends the monitor's loop for good.  After an error raised
\* inside a cycle (by the notifier, the operator alert itself included; a
\* feed error is turned into that alert) the monitor begins another cycle.
\* With no trade open a cycle only sleeps, which is no step of the model,
\* and a run begins no more cycles than its bound.
C16_MonitorRestarts ==
    (MonitorErrorLogged \in effects)
        ~> \/ mon.pc = "fetch_tickers"
           \/ DOMAIN open_trades = {}
           \/ cycle_count >= bound.cycles

\* the operator alert of a skipped cycle has itself failed, with a trade
\* open, and the monitor is asleep before a cycle it may still begin
C16_AlertFailed ==
    /\ MonitorErrorLogged \in effects
    /\ Notify("MONITOR_ALERT", 0) \in effects
    /\ mon.pc = "sleep"
    /\ DOMAIN open_trades # {}
    /\ cycle_count < bound.cycles

\* the stop the policy asks for once level index i >= 1 is hit: the entry
\* price for index 1, the price of level index i - 2 above it
RelocatedStop(trade, i) ==
    IF i = 1 THEN trade.entry_price ELSE trade.tp_levels[i - 1].price

\* C17: a failed notification never blocks trade-state progress.  Once the
\* slice of a level that triggers a stop relocation (index 1: break-even,
\* index i > 1: level i - 2) is stored and its notification is on its way,
\* the relocation is applied to the stored trade in that cycle or a later
\* one, whether the send succeeds or fails, as long as the trade is open.
C17_RelocationSurvivesFailedSend ==
    \A id \in 1..LadderTrades : \A i \in 1..(NUM_LEVELS - 2) :
        [](( /\ mon.pc = "send_partial"
             /\ mon.i = i
             /\ mon.open_trades[mon.k].trade_id = id
             /\ id \in DOMAIN open_trades )
           => <>( \/ id \notin DOMAIN open_trades
                  \/ open_trades[id].sl_price = RelocatedStop(open_trades[id], i) ))

(***************************************************************************)
(* Properties of the confirmation workflow.                                *)
(***************************************************************************)
\* the handler of a button press on a pending request takes a step
ButtonStep == hnd.caller = "button" /\ hnd' # hnd

\* C18: each pending confirmation is consumed exactly once.  When the
\* handler of a confirm or an ignore ends, the record of its request is
\* deleted, and a deleted request is never pending again; a confirm opens
\* at most one trade, in the step that ends its handler, for the trading
\* pair and from the image captured in the record; an ignore opens nothing
\* and changes nothing else; a press for a request that is no longer
\* pending changes no state.
C18_ConfirmationConsumedOnce ==
    /\ [][(ButtonStep /\ hnd'.pc = "idle")
          => hnd.request_id \notin DOMAIN app_state'.pending_confirmations]_vars
    /\ [][\A r \in 1..(next_request - 1) :
             r \notin DOMAIN app_state.pending_confirmations
                => r \notin DOMAIN app_state'.pending_confirmations]_vars
    /\ [][(ButtonStep /\ next_uuid' # next_uuid)
          => (/\ hnd.action = "confirm_trade"
              /\ hnd'.pc = "idle"
              /\ AddsOneTrade
              /\ LET request_data == app_state.pending_confirmations[hnd.request_id]
                     trade == open_trades'[next_uuid]
                 IN /\ trade.pair = request_data.trading_pair
                    /\ trade.entry_price = request_data.photo_file_id.entry
                    /\ trade.sl_price = request_data.photo_file_id.stoploss)]_vars
    /\ [][(ButtonStep /\ hnd.action = "ignore_trade")
          => (/\ hnd'.pc = "idle"
              /\ UNCHANGED <<open_trades, trade_history, settings, next_uuid>>)]_vars
    /\ [][(Notify("EXPIRED", 0) \in effects')
          => UNCHANGED <<open_trades, trade_history, settings, app_state, next_uuid,
                         next_request>>]_vars

\* a button of a request that was consumed is pressed again, with a trade
\* open: the press is answered as expired
C18_PressedAgain ==
    /\ effects = {Notify("EXPIRED", 0)}
    /\ next_request > 1
    /\ app_state.pending_confirmations = << >>
    /\ DOMAIN open_trades # {}

(***************************************************************************)
(* Properties of the full closure.                                         *)
(***************************************************************************)
\* C19: a trade is fully closed (out of the open set, one history record)
\* as soon as its 10th level is hit or its remaining size falls below the
\* epsilon; hence no trade of the open set has its 10th level hit.
C19_TenthLevelClosesTrade ==
    \A id \in DOMAIN open_trades :
        open_trades[id].tp_levels[NUM_LEVELS].status # "hit"

\* C20: when no operation is under way (the monitor sleeps, no handler is
\* in flight) no trade of the open set has remaining size 0.
C20_NoEmptyTradeOpen ==
    (mon.pc = "sleep" /\ hnd.pc = "idle")
        => \A id \in DOMAIN open_trades : open_trades[id].remaining_size # 0

(***************************************************************************)
(* Properties of the manual close.                                         *)
(***************************************************************************)
\* the stored trade the close command names: pair = symbol + 'USDT'
NamedBySymbol(symbol) ==
    {id \in DOMAIN open_trades : open_trades[id].pair = TradingPair(symbol)}

\* C21: manual-close(symbol), for a symbol whose trade was opened through
\* signal intake (stored pair = symbol + 'USDT'), finds that trade and asks
\* the feed for its price; with a price fetched and the transaction
\* committed the trade leaves the open set, a history record with the
\* manual-close reason and the fetched exit price is appended, and the
\* balance changes by the direction-signed (price - entry) x remaining size.
C21_ManualCloseCloses ==
    /\ [][(/\ hnd.pc = "idle"
           /\ hnd'.caller = "close"
           /\ NamedBySymbol(hnd'.pair_tag) # {})
          => (/\ hnd'.pc = "cbs_fetch_ticker"
              /\ hnd'.trade_to_close[1].trade_id \in NamedBySymbol(hnd'.pair_tag))]_vars
    /\ [][(/\ hnd.caller = "close"
           /\ hnd.pc = "cbs_fetch_ticker"
           /\ hnd'.ticker = "fetched"
           /\ fault_count' = fault_count)
          => LET trade == hnd.trade_to_close[1]
                 id == trade.trade_id
             IN /\ id \notin DOMAIN open_trades'
                /\ id \in DOMAIN trade_history'
                /\ trade_history'[id].status = "MANUAL_CLOSE"
                /\ settings'.balance = settings.balance
                      + SignedDiff(trade, trade_history'[id].exit_price)
                           * open_trades[id].remaining_size]_vars

(***************************************************************************)
(* Properties of the operator's settings.                                  *)
(***************************************************************************)
\* what the two commands answer with
SettingAnswers ==
    {"INVALID_LEVERAGE", "LEVERAGE_UPDATED", "INVALID_RISK", "RISK_ERROR", "RISK_UPDATED"}

\* C22: set-leverage stores a value only if it lies in 1..125 and set-risk
\* stores an amount only if it is > 0; a rejected value leaves the stored
\* leverage and risk-per-trade unchanged, an accepted one stores exactly
\* that value, and neither command changes the balance or any trade.
C22_SettingsValidated ==
    /\ [][settings'.leverage # settings.leverage
             => settings'.leverage \in 1..125]_vars
    /\ [][settings'.risk_per_trade # settings.risk_per_trade
             => settings'.risk_per_trade > 0]_vars
    /\ [][\A e \in effects' :
             /\ e.text \in {"INVALID_LEVERAGE", "INVALID_RISK", "RISK_ERROR"}
                   => UNCHANGED settings
             /\ e.text = "LEVERAGE_UPDATED"
                   => settings' = [settings EXCEPT !.leverage = e.ref]
             /\ e.text = "RISK_UPDATED"
                   => settings' = [settings EXCEPT !.risk_per_trade = e.ref]
             /\ e.text \in SettingAnswers
                   => UNCHANGED <<open_trades, trade_history>>
                      /\ settings'.balance = settings.balance]_vars

(***************************************************************************)
(* Properties of the balance.                                              *)
(***************************************************************************)
\* the step runs process_trade_closure or process_partial_tp_closure: the
\* monitor's evaluation takes its stop or its take-profit branch, or the
\* manual close has its price
SettlementStep ==
    \/ mon.pc = "evaluate" /\ mon'.pc \in {"send_closure", "send_partial"}
    \/ hnd.pc = "cbs_fetch_ticker" /\ hnd'.ticker = "fetched"

C24_HistoryAppendOnly ==
    /\ [][\A id \in DOMAIN trade_history :
             /\ id \in DOMAIN trade_history'
             /\ trade_history'[id] = trade_history[id]]_vars
    /\ [][\A id \in DOMAIN trade_history' \ DOMAIN trade_history :
             /\ SettlementStep
             /\ id \in DOMAIN open_trades
             /\ id \notin DOMAIN open_trades'
             /\ trade_history'[id].pair = open_trades[id].pair
             /\ trade_history'[id].entry_price = open_trades[id].entry_price
             /\ trade_history'[id].direction =
                   (IF open_trades[id].is_long THEN "LONG" ELSE "SHORT")]_vars

\* a second record has just been appended to a history that held one
C24_SecondRecordAppended ==
    /\ mon.pc = "send_closure"
    /\ Cardinality(DOMAIN trade_history) = 2
    /\ mon.open_trades[mon.k].trade_id \in DOMAIN trade_history
    /\ \E id \in DOMAIN trade_history : id # mon.open_trades[mon.k].trade_id

\* C26: if the atomic close fails and is rolled back, the balance is left
\* unchanged as well: a step in which close_trade prints its failure books
\* no PnL.
C26_RollbackLeavesBalance ==
    [][(\E e \in effects' : e.kind = "print")
          => settings'.balance = settings.balance]_vars

(***************************************************************************)
(* Properties of one evaluation.                                           *)
(***************************************************************************)
\* C27: in an evaluation in which the stop condition holds, the stop
\* closure is the only step that runs for that trade.  The evaluation
\* takes the stop branch: it books the PnL of the stop closure and nothing
\* else, marks no level hit and moves no stop, in the trade it holds and in
\* the stored one; when the closure's message is over the monitor goes on
\* to the next trade (or to sleep) and changes nothing.
C27_StopClosureOnly ==
    /\ [][StopIsHit =>
            LET id == mon.open_trades[mon.k].trade_id
                t == open_trades[id]
            IN /\ mon'.pc = "send_closure"
               /\ Notify("SL_HIT", id) \in effects'
               /\ Notify("PARTIAL_TP", id) \notin effects'
               /\ mon'.open_trades = mon.open_trades
               /\ mon'.k = mon.k
               /\ id \in DOMAIN open_trades' => open_trades'[id] = t
               /\ settings'.balance =
                     settings.balance + SignedDiff(t, t.sl_price) * t.remaining_size]_vars
    /\ [][(mon.pc = "send_closure" /\ mon' # mon)
          => (/\ mon'.pc \in {"evaluate", "sleep"}
              /\ mon'.pc = "evaluate" => mon'.k = mon.k + 1
              /\ UNCHANGED <<open_trades, trade_history, settings>>)]_vars

\* a trade with its first level hit and the second pending has just been
\* stopped out, at a price below its stop
C27_StoppedAfterFirstLevel ==
    /\ mon.pc = "send_closure"
    /\ LET t == mon.open_trades[mon.k]
       IN /\ t.tp_levels[1].status = "hit"
          /\ t.tp_levels[2].status = "pending"
          /\ t.trade_id \in DOMAIN trade_history
          /\ trade_history[t.trade_id].status = "SL_HIT"
          /\ mon.tickers[t.pair] < t.sl_price

\* the levels of a ladder that are hit
HitLevels(levels) == {j \in 1..Len(levels) : levels[j].status = "hit"}

\* the lowest level of a ladder that is pending (0: none is)
LowestPending(levels) ==
    IF \A j \in 1..Len(levels) : levels[j].status = "hit" THEN 0
    ELSE CHOOSE j \in 1..Len(levels) :
            /\ levels[j].status = "pending"
            /\ \A m \in 1..(j - 1) : levels[m].status # "pending"

\* C28: each evaluation of a trade examines only the lowest-index pending
\* level and marks at most one level hit, even when the price is beyond
\* several pending levels.  No step adds more than one hit level to a
\* trade; an evaluation whose price has reached the lowest pending level
\* (and not the stop) marks exactly that level, and one whose price has not
\* reached it marks none; a cycle evaluates each trade of its snapshot
\* once.  So a gap through n levels is consumed one level a cycle, in index
\* order.
C28_OneLevelPerEvaluation ==
    /\ [][\A id \in DOMAIN open_trades \cap DOMAIN open_trades' :
             Cardinality(HitLevels(open_trades'[id].tp_levels))
                <= Cardinality(HitLevels(open_trades[id].tp_levels)) + 1]_vars
    /\ [][(mon.pc = "evaluate" /\ ~StopIsHit
           /\ mon.open_trades[mon.k].pair \in DOMAIN mon.tickers)
          => LET t == mon.open_trades[mon.k]
                 id == t.trade_id
                 j == LowestPending(t.tp_levels)
                 price == mon.tickers[t.pair]
                 reached == /\ j # 0
                            /\ IF t.is_long THEN price >= t.tp_levels[j].price
                               ELSE price <= t.tp_levels[j].price
             IN IF reached
                THEN /\ mon'.pc = "send_partial"
                     /\ mon'.i = j - 1
                     /\ mon'.open_trades[mon.k].tp_levels =
                           [t.tp_levels EXCEPT ![j].status = "hit"]
                     /\ id \in DOMAIN open_trades' =>
                           open_trades'[id].tp_levels \in
                              {t.tp_levels, [t.tp_levels EXCEPT ![j].status = "hit"]}
                ELSE /\ mon'.pc \in {"evaluate", "sleep"}
                     /\ UNCHANGED open_trades]_vars
    /\ [][(mon'.pc = "evaluate" /\ mon' # mon)
          => mon'.k = IF mon.pc = "fetch_tickers" THEN 1 ELSE mon.k + 1]_vars
    /\ [][(mon.pc \in {"send_partial", "send_sl_update"} /\ mon' # mon)
          => \A id \in DOMAIN open_trades \cap DOMAIN open_trades' :
                open_trades'[id].tp_levels = open_trades[id].tp_levels]_vars

\* the second level of a long trade has just been marked at a price that
\* is beyond every level of the ladder; the third is still pending
C28_GapTakenOneLevelACycle ==
    /\ mon.pc = "send_partial"
    /\ mon.i = 1
    /\ LET t == mon.open_trades[mon.k]
       IN /\ t.is_long
          /\ mon.tickers[t.pair] >= t.tp_levels[NUM_LEVELS].price
          /\ t.tp_levels[2].status = "hit"
          /\ \A j \in 3..NUM_LEVELS : t.tp_levels[j].status = "pending"
          /\ t.trade_id \in DOMAIN open_trades
          /\ open_trades[t.trade_id].tp_levels = t.tp_levels

(***************************************************************************)
(* Properties of the partial closure.                                      *)
(***************************************************************************)
\* C29: a partial closure at ladder level i closes exactly a tenth of the
\* initial size at that level's price, not at the observed one.  In the
\* step that takes the level, the balance grows by the direction-signed
\* (level price - entry price) x initial size / 10; in the trade the
\* monitor holds the remaining size is a tenth of the initial size less,
\* level i is hit and nothing else has changed; the stored trade is that
\* same record when the slice leaves the trade open, and the closing slice
\* moves it to the history at the level's price (or is rolled back).
C29_PartialClosesATenth ==
    [][(mon.pc = "evaluate" /\ mon'.pc = "send_partial")
       => LET id == mon.open_trades[mon.k].trade_id
              t == open_trades[id]
              j == mon'.i + 1
              level_price == t.tp_levels[j].price
              pnl == (IF t.is_long THEN level_price - t.entry_price
                      ELSE t.entry_price - level_price) * t.initial_size
              after == [t EXCEPT !.tp_levels[j].status = "hit",
                                 !.remaining_size = mon'.open_trades[mon.k].remaining_size]
          IN /\ t.tp_levels[j].status = "pending"
             /\ 10 * (settings'.balance - settings.balance) = pnl
             /\ 10 * (t.remaining_size - after.remaining_size) = t.initial_size
             /\ mon'.open_trades[mon.k] = after
             /\ IF j < NUM_LEVELS /\ after.remaining_size > 0
                THEN /\ open_trades' = [open_trades EXCEPT ![id] = after]
                     /\ UNCHANGED trade_history
                ELSE \/ /\ id \notin DOMAIN open_trades'
                        /\ id \in DOMAIN trade_history'
                        /\ trade_history'[id].exit_price = level_price
                        /\ 10 * trade_history'[id].pnl = pnl
                     \/ /\ \E e \in effects' : e.kind = "print" /\ e.ref = id
                        /\ UNCHANGED <<open_trades, trade_history>>]_vars

\* the fifth level (150) of a long trade of size 5.0 entered at 100 has
\* just been taken at an observed price of 200: five slices of 0.5 have
\* brought 5 + 10 + 15 + 20 + 25 and half the position is left
C29_FifthSliceAtLevelPrice ==
    /\ mon.pc = "send_partial"
    /\ mon.i = 4
    /\ LET t == mon.open_trades[mon.k]
       IN /\ mon.tickers[t.pair] = 200
          /\ t.tp_levels[5].price = 150
          /\ t.initial_size = Tenths(5)
          /\ t.trade_id \in DOMAIN open_trades
          /\ open_trades[t.trade_id].remaining_size = 25
    /\ settings.balance = Tenths(INITIAL_BALANCE) + 50 + 100 + 150 + 200 + 250

C31_NoEffectAfterFullClose ==
    /\ [][\A e \in effects' :
             (e.kind = "notify" /\ e.text = "SL_UPDATED")
                => e.ref \notin DOMAIN trade_history']_vars
    /\ [][(/\ mon.pc = "send_partial"
           /\ mon' # mon
           /\ mon.open_trades[mon.k].trade_id \in DOMAIN trade_history)
          => UNCHANGED open_trades]_vars

(***************************************************************************)
(* Properties of the batched price fetch.                                  *)
(***************************************************************************)
\* C32: a monitor cycle never evaluates with partial price data: when the
\* monitor goes on from the fetch to the evaluation, the answer holds a
\* price for the pair of every trade of the snapshot.
C32_NoPartialEvaluation ==
    [][(mon.pc = "fetch_tickers" /\ mon'.pc = "evaluate")
          => \A n \in 1..Len(mon.open_trades) :
                mon.open_trades[n].pair \in DOMAIN mon'.tickers]_vars

(***************************************************************************)
(* Properties of the caption's routing.                                    *)
(***************************************************************************)
\* the handler of a signal takes a step
SignalStep == hnd.caller = "message" /\ hnd' # hnd

ChangedRecords ==
    {id \in DOMAIN open_trades \cup DOMAIN open_trades' :
        \/ id \notin DOMAIN open_trades
        \/ id \notin DOMAIN open_trades'
        \/ open_trades'[id] # open_trades[id]}

\* the trade a step works on: the one the monitor's loop stands at, or the
\* one a handler closes or is about to insert
HandledRecords ==
    IF mon' # mon
    THEN {mon.open_trades[n].trade_id : n \in {mon.k} \cap DOMAIN mon.open_trades}
    ELSE {next_uuid} \cup {hnd.trade_to_close[n].trade_id : n \in DOMAIN hnd.trade_to_close}

\* C35: an operation that inserts, updates or closes one trade leaves the
\* record of every other open trade unchanged.  add_trade, update_trade and
\* close_trade, applied for one trade to the table as it stands, return
\* every other row as it was, whatever fields are written and wherever the
\* transaction fails; and every step of the monitor and of a handler, in
\* any interleaving, changes at most one row, the row of the trade it works
\* on, so that a write made from the monitor's older snapshot never undoes
\* what a handler wrote to another trade in between.
C35_OtherRecordsUntouched ==
    /\ [] \A id \in DOMAIN open_trades \cup {next_uuid} :
       \A other \in DOMAIN open_trades \ {id} :
          /\ \A n \in 1..Len(mon.open_trades) :
                update_trade(open_trades,
                             [mon.open_trades[n] EXCEPT !.trade_id = id])[other]
                   = open_trades[other]
          /\ \A fault \in Faults, last \in Prices :
                LET r == close_trade_txn([open |-> open_trades, hist |-> trade_history],
                                         id, "MANUAL_CLOSE", last, 0, fault)
                IN /\ other \in DOMAIN r.db.open
                   /\ r.db.open[other] = open_trades[other]
          /\ add_trade(open_trades, [open_trades[other] EXCEPT !.trade_id = id])[other]
                = open_trades[other]
    /\ [][/\ ChangedRecords \subseteq HandledRecords
          /\ Cardinality(ChangedRecords) <= 1]_vars

\* the monitor has written the relocated stop of the trade of its snapshot
\* after a handler inserted a second trade during the cycle: both writes
\* are in the table
C35_BothWritesKept ==
    /\ mon.pc = "send_sl_update"
    /\ Len(mon.open_trades) = 1
    /\ DOMAIN open_trades = {1, 2}
    /\ open_trades[1] = mon.open_trades[1]
    /\ open_trades[1].remaining_size < open_trades[1].initial_size
    /\ open_trades[2].remaining_size = open_trades[2].initial_size
    /\ open_trades[2].sl_price # open_trades[1].sl_price

(***************************************************************************)
(* Properties of the stop's movement.                                      *)
(***************************************************************************)
\* price a lies on the adverse side of price b for the trade
AdverseOf(trade, a, b) == IF trade.is_long THEN a < b ELSE a > b

\* C37: the stop price of an open trade only ever moves in the trade's
\* favourable direction, and always stays strictly on the adverse side of
\* the lowest pending level's price.  In every state the stop of every open
\* trade with a pending level is below that level's price for a long and
\* above it for a short; and no step lowers the stored stop of a long or
\* raises the stored stop of a short.
C37_StopMovesFavourably ==
    /\ [] \A id \in DOMAIN open_trades :
            LET trade == open_trades[id]
                j == LowestPending(trade.tp_levels)
            IN j # 0 => AdverseOf(trade, trade.sl_price, trade.tp_levels[j].price)
    /\ [][\A id \in DOMAIN open_trades \cap DOMAIN open_trades' :
            \/ open_trades'[id].sl_price = open_trades[id].sl_price
            \/ AdverseOf(open_trades[id], open_trades[id].sl_price,
                         open_trades'[id].sl_price)]_vars

\* the stop of a short has been trailed down past the entry, to the level
\* three below the lowest pending one
C37_ShortStopTrailed ==
    \E id \in DOMAIN open_trades :
       LET trade == open_trades[id]
           j == LowestPending(trade.tp_levels)
       IN /\ ~trade.is_long
          /\ j > 3
          /\ trade.sl_price = trade.tp_levels[j - 3].price
          /\ trade.sl_price < trade.entry_price

(***************************************************************************)
(* Properties of the realized PnL.                                         *)
(***************************************************************************)
RECURSIVE SumPnl(_, _)
\* the sum of the pnl column over the rows ids of trade_history
SumPnl(hist, ids) ==
    IF ids = {} THEN 0
    ELSE LET id == CHOOSE x \in ids : TRUE
         IN hist[id].pnl + SumPnl(hist, ids \ {id})

\* C38: whenever the open set is empty, the sum of the realized PnL of all
\* history records equals the current balance minus the initial balance:
\* every slice booked to the balance, partial take-profits as well as the
\* final closure, is accounted for in the history record of its trade.
C38_HistoryAccountsForBalance ==
    DOMAIN open_trades = {}
       => SumPnl(trade_history, DOMAIN trade_history)
             = settings.balance - Tenths(INITIAL_BALANCE)

(***************************************************************************)
(* Properties of the balance query.                                        *)
(***************************************************************************)
\* C39: the balance reported by the balance query equals the balance
\* stored in the ledger at the time of the query, after any sequence of
\* partial and full closures.  Every reply of the query carries the value
\* the settings table holds when it is sent.
C39_QueryReportsLedgerBalance ==
    [][\A e \in effects' :
          (e.kind = "notify" /\ e.text = "CURRENT_BALANCE")
             => e.ref = settings.balance]_vars

====
